---- MODULE Spec2Model ----
(***************************************************************************)
(* Model of the I-Board whiteboard component (src/app/page.js): the pixel  *)
(* buffer of the canvas, the gesture handlers of the drawing tools, the    *)
(* flood fill, the move tool and the undo history.                         *)
(*                                                                         *)
(* A pixel is an RGBA tuple.  The canvas is a function from pixel          *)
(* coordinates to pixels.  Pointer positions are pixel coordinates (the    *)
(* device pixel ratio is dpr).  Image decoding is asynchronous: every      *)
(* `new Image()` whose src is set becomes a pending load in `loads`, and   *)
(* its onload callback is a separate step.                                 *)
(*                                                                         *)
(* Spec       the mounted component under mouse and toolbar input          *)
(* SpecTouch  the mounted component under touch input                      *)
(* SpecWindow the component from its first render: mount, background       *)
(*            colour input, window resize, Clear and Undo                  *)
(* SpecFill   handleFill on every buffer over three pixel values           *)
(*                                                                         *)
(* Pointer positions are whole pixels, so a floating image is drawn at     *)
(* pos - (size \div 2); a resize keeps the size of the canvas.             *)
(***************************************************************************)
EXTENDS Integers, Sequences, FiniteSets, TLC

\* ------------------------------------------------------------------ bounds
\* canvas.width and canvas.height in device pixels
W == 2
H == 2
\* number of saveToHistory calls explored after the component has mounted
MaxPushes == 2
\* number of image decodes that may be outstanding at once
MaxLoads == 1

\* window.devicePixelRatio || 1
dpr == 1

\* ------------------------------------------------------------------ values
Pixels == (0..(W - 1)) \X (0..(H - 1))

\* the values offered by the colour inputs
Colors == {"#000000", "#FF0000"}
Backgrounds == {"#FFFFFF"}

\* the pointer positions the events are drawn from
Points == {<<0, 0>>, <<W - 1, H - 1>>}

Tools == {"pencil", "eraser", "line", "rectangle", "circle", "move", "fill"}

None == <<>>
Some(v) == <<v>>

Transparent == <<0, 0, 0, 0>>

\* hexToRgb: the three colour bytes of a "#rrggbb" string, None when the
\* string does not match the pattern
hexToRgb(hex) ==
    CASE hex = "#000000" -> Some(<<0, 0, 0>>)
      [] hex = "#FF0000" -> Some(<<255, 0, 0>>)
      [] hex = "#FFFFFF" -> Some(<<255, 255, 255>>)
      [] OTHER -> None

\* the pixel a fully covered source-over paint of a CSS colour leaves
Opaque(hex) == hexToRgb(hex)[1] \o <<255>>

Abs(n) == IF n < 0 THEN -n ELSE n
Min(a, b) == IF a < b THEN a ELSE b
Max(a, b) == IF a < b THEN b ELSE a

\* ------------------------------------------------------------- rasterizer
\* pixels covered by stroking the segment p-q
LinePixels(p, q) ==
    LET dx == q[1] - p[1]
        dy == q[2] - p[2]
    IN {r \in Pixels :
          /\ Min(p[1], q[1]) <= r[1] /\ r[1] <= Max(p[1], q[1])
          /\ Min(p[2], q[2]) <= r[2] /\ r[2] <= Max(p[2], q[2])
          /\ 2 * Abs(dx * (r[2] - p[2]) - dy * (r[1] - p[1])) <= Max(Abs(dx), Abs(dy))}

\* pixels covered by stroking the outline of the rectangle with corners p, q
RectPixels(p, q) ==
    {r \in Pixels :
       /\ Min(p[1], q[1]) <= r[1] /\ r[1] <= Max(p[1], q[1])
       /\ Min(p[2], q[2]) <= r[2] /\ r[2] <= Max(p[2], q[2])
       /\ \/ r[1] \in {p[1], q[1]}
          \/ r[2] \in {p[2], q[2]}}

\* pixels covered by stroking the circle centred at c through q
CirclePixels(c, q) ==
    LET r2 == (q[1] - c[1]) * (q[1] - c[1]) + (q[2] - c[2]) * (q[2] - c[2])
    IN {r \in Pixels :
          LET d2 == (r[1] - c[1]) * (r[1] - c[1]) + (r[2] - c[2]) * (r[2] - c[2])
          IN (4 * d2 + 4 * r2 - 1) * (4 * d2 + 4 * r2 - 1) <= 64 * d2 * r2}

\* ------------------------------------------------------------ compositing
\* one pixel of a fully opaque source composited onto dst
Composite(op, src, dst) ==
    IF src[4] = 0 THEN dst
    ELSE IF op = "destination-out" THEN Transparent
    ELSE src

\* stroke() / fillRect() of the pixel set S with the CSS colour style
Paint(cv, S, style, op) ==
    [p \in Pixels |-> IF p \in S THEN Composite(op, Opaque(style), cv[p]) ELSE cv[p]]

\* clearRect over the whole canvas
Cleared == [p \in Pixels |-> Transparent]

\* canvas.toDataURL('image/png'): the pixels in row-major order
toDataURL(cv) == [i \in 1..(W * H) |-> cv[<<(i - 1) % W, (i - 1) \div W>>]]

\* the pixel of a decoded full-canvas image at p
ImagePixel(img, p) == img[p[2] * W + p[1] + 1]

\* drawImage of a decoded full-canvas image at the origin
DrawImage(cv, img, op) ==
    [p \in Pixels |-> Composite(op, ImagePixel(img, p), cv[p])]

\* a rectangular block of pixels (getImageData of a region, or the decoded
\* image made from it): width, height and the pixels in row-major order
Region(cv, x, y, w, h) ==
    [width |-> w, height |-> h,
     data |-> [i \in 1..(w * h) |->
                 LET p == <<x + ((i - 1) % w), y + ((i - 1) \div w)>>
                 IN IF p \in Pixels THEN cv[p] ELSE Transparent]]

\* drawImage of such a block with its top-left corner at (ox, oy)
DrawRegion(cv, img, ox, oy, op) ==
    [p \in Pixels |->
       IF /\ ox <= p[1] /\ p[1] < ox + img.width
          /\ oy <= p[2] /\ p[2] < oy + img.height
       THEN Composite(op, img.data[(p[2] - oy) * img.width + (p[1] - ox) + 1], cv[p])
       ELSE cv[p]]

\* ------------------------------------------------------------- flood fill
OutOfBounds(px, py) == px < 0 \/ py < 0 \/ px >= W \/ py >= H

\* getPixel of handleFill: the sentinel outside the canvas
getPixel(data, px, py) ==
    IF OutOfBounds(px, py) THEN <<-1, -1, -1, -1>> ELSE data[<<px, py>>]

\* a.every((c, i) => c === b[i])
SameColor(a, b) == \A i \in 1..4 : a[i] = b[i]

\* the while loop of handleFill: s.data is the ImageData being rewritten,
\* s.queue the work queue; s.deq, s.enq and s.filled count the coordinates
\* dequeued, the coordinates enqueued and the pixels rewritten
RECURSIVE FillLoop8(_, _, _)
FillLoop8(s, startColor, fillColor) ==
    IF s.queue = <<>> THEN s
    ELSE LET px == Head(s.queue)[1]
             py == Head(s.queue)[2]
             rest == Tail(s.queue)
         IN IF OutOfBounds(px, py)
            THEN FillLoop8([s EXCEPT !.queue = rest, !.deq = @ + 1],
                           startColor, fillColor)
            ELSE IF SameColor(getPixel(s.data, px, py), startColor)
            THEN FillLoop8([data |-> [s.data EXCEPT ![<<px, py>>] = fillColor],
                            queue |-> rest \o << <<px + 1, py>>, <<px - 1, py>>,
                                                 <<px, py + 1>>, <<px, py - 1>>,
                                                 <<px + 1, py + 1>>, <<px - 1, py - 1>> >>,
                            deq |-> s.deq + 1,
                            enq |-> s.enq + 6,
                            filled |-> s.filled + 1],
                           startColor, fillColor)
            ELSE FillLoop8([s EXCEPT !.queue = rest, !.deq = @ + 1],
                           startColor, fillColor)

RECURSIVE FillLoopRequeue(_, _, _)
FillLoopRequeue(s, startColor, fillColor) ==
    IF s.queue = <<>> THEN s
    ELSE LET px == Head(s.queue)[1]
             py == Head(s.queue)[2]
             rest == Tail(s.queue)
         IN IF OutOfBounds(px, py)
            THEN FillLoopRequeue([s EXCEPT !.queue = rest, !.deq = @ + 1],
                                 startColor, fillColor)
            ELSE IF SameColor(getPixel(s.data, px, py), startColor)
            THEN FillLoopRequeue([data |-> [s.data EXCEPT ![<<px, py>>] = fillColor],
                                  queue |-> rest \o << <<px, py>>, <<px + 1, py>>,
                                                       <<px - 1, py>>, <<px, py + 1>>,
                                                       <<px, py - 1>> >>,
                                  deq |-> s.deq + 1,
                                  enq |-> s.enq + 5,
                                  filled |-> s.filled + 1],
                                 startColor, fillColor)
            ELSE FillLoopRequeue([s EXCEPT !.queue = rest, !.deq = @ + 1],
                                 startColor, fillColor)

RECURSIVE FillLoop(_, _, _)
FillLoop(s, startColor, fillColor) ==
    IF s.queue = <<>> THEN s
    ELSE LET px == Head(s.queue)[1]
             py == Head(s.queue)[2]
             rest == Tail(s.queue)
         IN IF OutOfBounds(px, py)
            THEN FillLoop([s EXCEPT !.queue = rest, !.deq = @ + 1],
                          startColor, fillColor)
            ELSE IF SameColor(getPixel(s.data, px, py), startColor)
            THEN FillLoop([data |-> [s.data EXCEPT ![<<px, py>>] = fillColor],
                           queue |-> rest \o << <<px + 1, py>>, <<px - 1, py>>,
                                                <<px, py + 1>>, <<px, py - 1>> >>,
                           deq |-> s.deq + 1,
                           enq |-> s.enq + 4,
                           filled |-> s.filled + 1],
                          startColor, fillColor)
            ELSE FillLoop([s EXCEPT !.queue = rest, !.deq = @ + 1],
                          startColor, fillColor)

FillColorClear(rgb) == rgb \o <<0>>

\* fillColor of handleFill
FillColor(rgb) == rgb \o <<255>>

\* the early return of handleFill: the origin already has the fill colour
FillIsNoop(startColor, fillColor) == SameColor(startColor, fillColor)

FloodFillThenCommit(cv, startX, startY, hex) ==
    LET fillColor == FillColor(hexToRgb(hex)[1])
        startColor == getPixel(cv, startX, startY)
    IN IF FillIsNoop(startColor, fillColor)
       THEN [data |-> cv, queue |-> <<>>, deq |-> 0, enq |-> 0, filled |-> 0,
             done |-> TRUE]
       ELSE LET r == FillLoop([data |-> cv, queue |-> << <<startX, startY>> >>,
                               deq |-> 0, enq |-> 1, filled |-> 0],
                              startColor, fillColor)
            IN [data |-> r.data, queue |-> r.queue, deq |-> r.deq, enq |-> r.enq,
                filled |-> r.filled, done |-> TRUE]

\* handleFill from getImageData to the end of the loop, for a valid colour:
\* done is FALSE when the handler returned before the loop
FloodFill(cv, startX, startY, hex) ==
    LET fillColor == FillColor(hexToRgb(hex)[1])
        startColor == getPixel(cv, startX, startY)
    IN IF FillIsNoop(startColor, fillColor)
       THEN [data |-> cv, queue |-> <<>>, deq |-> 0, enq |-> 0, filled |-> 0,
             done |-> FALSE]
       ELSE LET r == FillLoop([data |-> cv, queue |-> << <<startX, startY>> >>,
                               deq |-> 0, enq |-> 1, filled |-> 0],
                              startColor, fillColor)
            IN [data |-> r.data, queue |-> r.queue, deq |-> r.deq, enq |-> r.enq,
                filled |-> r.filled, done |-> TRUE]

\* ------------------------------------------------------------------ state
VARIABLES
    canvas,          \* the pixel buffer of the <canvas>
    gco,             \* context.globalCompositeOperation
    path,            \* the context's current path: pixels it covers, pen position
    tool, color, backgroundColor,
    isDrawing, startPos, canvasSnapshot, pastingImage,
    history, historyStep,
    loads,           \* images whose src is set and whose onload has not run
    pushCount,       \* number of saveToHistory calls since mount
    ev               \* the handler that ran last and what it did

vars == <<canvas, gco, path, tool, color, backgroundColor, isDrawing, startPos,
          canvasSnapshot, pastingImage, history, historyStep, loads, pushCount, ev>>

EmptyPath == [pix |-> {}, pen |-> None]

EndEvents == {"mouseup", "mouseleave", "touchend"}

\* what a handler reports: its name, for a gesture-end handler whether a
\* gesture was active, how many times it called saveToHistory, whether it
\* threw, and for a fill or a paste the pointer position and the statistics
\* of the loop
Event(name, pushed, threw, pos, fill) ==
    [name |-> name, wasDrawing |-> isDrawing /\ name \in EndEvents, pushed |-> pushed,
     threw |-> threw, pos |-> pos, fill |-> fill]

NoFill == [deq |-> 0, enq |-> 0, filled |-> 0, done |-> FALSE]

\* ---------------------------------------------------------------- history
\* the entry saveToHistory appends: the PNG of the canvas (n numbers the
\* calls, so that two entries with equal pictures stay distinguishable)
Entry(cv, n) == [url |-> toDataURL(cv), n |-> n]

saveToHistoryNoTruncate(hist, step, entry) ==
    LET newHistory == Append(hist, entry)
    IN [history |-> newHistory, historyStep |-> Len(newHistory) - 1]

\* saveToHistory: the new history and cursor
saveToHistory(hist, step, entry) ==
    LET newHistory == Append(SubSeq(hist, 1, step + 1), entry)
    IN [history |-> newHistory, historyStep |-> Len(newHistory) - 1]

handleUndoToStart(step) == IF step > 0 THEN 0 ELSE step

handleUndoNoGuard(step) == step - 1

\* handleUndo: the new cursor
handleUndo(step) == IF step > 0 THEN step - 1 ELSE step

\* useEffect[historyStep]: when the cursor changed and names an entry, an
\* Image is created for that entry; its onload runs later
\* (cause records which handler moved the cursor)
RedrawEffect(hist, step, cause) ==
    IF step # historyStep /\ step >= 0 /\ step + 1 <= Len(hist)
    THEN loads \cup {[kind |-> "restore", src |-> hist[step + 1].url, cause |-> cause]}
    ELSE loads

\* useEffect[color, lineWidth, tool]
CompositeFor(t) == IF t = "eraser" THEN "destination-out" ELSE "source-over"

\* a handler that changed no history and has nothing to report
Quiet == [name |-> "quiet", wasDrawing |-> FALSE, pushed |-> 0, threw |-> FALSE,
          pos |-> None, fill |-> NoFill]

\* user input is explored until MaxPushes entries have been pushed; after
\* that only Undo and the pending image loads run
CanPush == pushCount < MaxPushes
CanLoad == Cardinality(loads) < MaxLoads

\* a handler that draws cv, calls saveToHistory once and lets the effects run
Commit(cv) ==
    LET r == saveToHistory(history, historyStep, Entry(cv, pushCount + 1))
    IN /\ CanPush /\ CanLoad
       /\ canvas' = cv
       /\ history' = r.history
       /\ historyStep' = r.historyStep
       /\ pushCount' = pushCount + 1
       /\ loads' = RedrawEffect(r.history, r.historyStep, "push")

\* after mount: both mount effects have called clearCanvas with the first
\* render's empty history, and the redraw effect has created its Image
Init ==
    /\ backgroundColor \in Backgrounds
    /\ color = "#000000"
    /\ tool = "pencil"
    /\ gco = "source-over"
    /\ canvas = [p \in Pixels |-> Opaque(backgroundColor)]
    /\ path = EmptyPath
    /\ isDrawing = FALSE
    /\ startPos = None
    /\ canvasSnapshot = None
    /\ pastingImage = None
    /\ history = <<Entry(canvas, 0)>>
    /\ historyStep = 0
    /\ loads = {[kind |-> "restore", src |-> history[1].url, cause |-> "push"]}
    /\ pushCount = 0
    /\ ev = [name |-> "mount", wasDrawing |-> FALSE, pushed |-> 1,
             threw |-> FALSE, pos |-> None, fill |-> NoFill]

\* ------------------------------------------------------------------ paths
Isqrt(n) == CHOOSE k \in 0..n : k * k <= n /\ n < (k + 1) * (k + 1)

Dist2(p, q) == (q[1] - p[1]) * (q[1] - p[1]) + (q[2] - p[2]) * (q[2] - p[2])

\* context.lineTo on the current path (a moveTo when the path is empty)
LineTo(pa, pos) ==
    IF pa.pen = None THEN [pix |-> pa.pix, pen |-> Some(pos)]
    ELSE [pix |-> pa.pix \cup LinePixels(pa.pen[1], pos), pen |-> Some(pos)]

StrokeTools == {"pencil", "eraser"}
ShapeTools == {"line", "rectangle", "circle"}

\* draw(event) run on the canvas cv: the canvas and the path it leaves
draw(cv, pos) ==
    IF ~isDrawing \/ startPos = None THEN [canvas |-> cv, path |-> path]
    ELSE IF tool \in StrokeTools
    THEN LET np == LineTo(path, pos)
         IN [canvas |-> Paint(cv, np.pix, color, gco), path |-> np]
    ELSE IF canvasSnapshot # None
    THEN LET base == canvasSnapshot[1]
             s == startPos[1]
         IN CASE tool = "line" ->
                   [canvas |-> Paint(base, LinePixels(s, pos), color, gco),
                    path |-> [pix |-> LinePixels(s, pos), pen |-> Some(pos)]]
              [] tool = "rectangle" ->
                   [canvas |-> Paint(base, RectPixels(s, pos), color, gco),
                    path |-> [pix |-> RectPixels(s, pos), pen |-> Some(s)]]
              [] tool = "move" ->
                   [canvas |-> Paint(base, RectPixels(s, pos), "#000000", gco),
                    path |-> [pix |-> RectPixels(s, pos), pen |-> Some(s)]]
              [] tool = "circle" ->
                   [canvas |-> Paint(base, CirclePixels(s, pos), color, gco),
                    path |-> [pix |-> CirclePixels(s, pos),
                              pen |-> Some(<<s[1] + Isqrt(Dist2(s, pos)), s[2]>>)]]
              [] OTHER -> [canvas |-> base, path |-> EmptyPath]
    ELSE [canvas |-> cv, path |-> path]

\* ---------------------------------------------------------------- toolbar
\* a tool button: setTool(name); the effect on [color, lineWidth, tool] then
\* sets globalCompositeOperation.  Tools are not switched mid-gesture.
SetTool(t) ==
    /\ CanPush
    /\ ~isDrawing
    /\ t # tool
    /\ tool' = t
    /\ gco' = CompositeFor(t)
    /\ ev' = Quiet
    /\ UNCHANGED <<canvas, path, color, backgroundColor, isDrawing, startPos,
                   canvasSnapshot, pastingImage, history, historyStep, loads, pushCount>>

\* a tool button pressed after a touch gesture: the finger has been lifted,
\* so no gesture is in progress, but the touchend handler threw and left
\* isDrawing set
SetToolAfterTouch(t) ==
    /\ CanPush
    /\ isDrawing
    /\ ev.name = "touchend"
    /\ t # tool
    /\ tool' = t
    /\ gco' = CompositeFor(t)
    /\ ev' = Quiet
    /\ UNCHANGED <<canvas, path, color, backgroundColor, isDrawing, startPos,
                   canvasSnapshot, pastingImage, history, historyStep, loads, pushCount>>

\* the Undo button
Undo ==
    LET s == handleUndo(historyStep)
    IN /\ s # historyStep => CanLoad
       /\ historyStep' = s
       /\ loads' = RedrawEffect(history, s, "undo")
       /\ ev' = IF s # historyStep THEN Event("undo", 0, FALSE, None, NoFill) ELSE Quiet
       /\ UNCHANGED <<canvas, gco, path, tool, color, backgroundColor, isDrawing,
                      startPos, canvasSnapshot, pastingImage, history, pushCount>>

\* the Clear button: clearCanvas
clearCanvas ==
    /\ Commit(Paint(Cleared, Pixels, backgroundColor, gco))
    /\ ev' = Event("clear", 1, FALSE, None, NoFill)
    /\ UNCHANGED <<gco, path, tool, color, backgroundColor, isDrawing, startPos,
                   canvasSnapshot, pastingImage>>

\* ------------------------------------------------------------ pointer down
pasteImageKeepFloating(pos) ==
    /\ pastingImage # None
    /\ LET pi == pastingImage[1]
       IN Commit(DrawRegion(canvas, pi.image, pos[1] - (pi.width \div 2),
                            pos[2] - (pi.height \div 2), gco))
    /\ tool' = "pencil"
    /\ gco' = CompositeFor("pencil")
    /\ ev' = Event("paste", 1, FALSE, Some(pos), NoFill)
    /\ UNCHANGED <<path, color, backgroundColor, isDrawing, startPos, canvasSnapshot,
                   pastingImage>>

\* handleMouseDown with a floating region: pasteImage
pasteImage(pos) ==
    /\ pastingImage # None
    /\ LET pi == pastingImage[1]
       IN Commit(DrawRegion(canvas, pi.image, pos[1] - (pi.width \div 2),
                            pos[2] - (pi.height \div 2), gco))
    /\ pastingImage' = None
    /\ tool' = "pencil"
    /\ gco' = CompositeFor("pencil")
    /\ ev' = Event("paste", 1, FALSE, Some(pos), NoFill)
    /\ UNCHANGED <<path, color, backgroundColor, isDrawing, startPos, canvasSnapshot>>

\* handleMouseDown with the fill tool: handleFill
handleFill(pos) ==
    /\ CanPush
    /\ pastingImage = None
    /\ tool = "fill"
    /\ IF hexToRgb(color) = None
       THEN /\ ev' = Event("fill", 0, FALSE, Some(pos), NoFill)
            /\ UNCHANGED <<canvas, history, historyStep, loads, pushCount>>
       ELSE LET r == FloodFill(canvas, pos[1] * dpr, pos[2] * dpr, color)
                st == [deq |-> r.deq, enq |-> r.enq, filled |-> r.filled,
                       done |-> r.done]
            IN IF ~r.done
               THEN /\ ev' = Event("fill", 0, FALSE, Some(pos), st)
                    /\ UNCHANGED <<canvas, history, historyStep, loads, pushCount>>
               ELSE /\ Commit(r.data)
                    /\ ev' = Event("fill", 1, FALSE, Some(pos), st)
    /\ UNCHANGED <<gco, path, tool, color, backgroundColor, isDrawing, startPos,
                   canvasSnapshot, pastingImage>>

\* handleMouseDown otherwise: startDrawing
startDrawing(pos) ==
    /\ CanPush
    /\ pastingImage = None
    /\ tool # "fill"
    /\ isDrawing' = TRUE
    /\ startPos' = Some(pos)
    /\ IF tool \in StrokeTools
       THEN /\ path' = [pix |-> {}, pen |-> Some(pos)]
            /\ UNCHANGED canvasSnapshot
       ELSE /\ path' = EmptyPath
            /\ canvasSnapshot' = Some(canvas)
    /\ ev' = Quiet
    /\ UNCHANGED <<canvas, gco, tool, color, backgroundColor, pastingImage,
                   history, historyStep, loads, pushCount>>

\* ------------------------------------------------------------ pointer move
\* handleMouseMove with a floating region: the region follows the pointer
\* (putImageData(null) throws when the snapshot is gone)
floatingPreview(pos) ==
    /\ CanPush
    /\ pastingImage # None
    /\ IF canvasSnapshot = None
       THEN /\ ev' = Event("float", 0, TRUE, None, NoFill)
            /\ UNCHANGED canvas
       ELSE /\ LET pi == pastingImage[1]
               IN canvas' = DrawRegion(canvasSnapshot[1], pi.image,
                                       pos[1] - (pi.width \div 2),
                                       pos[2] - (pi.height \div 2), gco)
            /\ ev' = Quiet
    /\ UNCHANGED <<gco, path, tool, color, backgroundColor, isDrawing, startPos,
                   canvasSnapshot, pastingImage, history, historyStep, loads, pushCount>>

\* handleMouseMove otherwise: draw
handleMouseMove(pos) ==
    /\ CanPush
    /\ pastingImage = None
    /\ LET r == draw(canvas, pos)
       IN /\ canvas' = r.canvas
          /\ path' = r.path
    /\ ev' = Quiet
    /\ UNCHANGED <<gco, tool, color, backgroundColor, isDrawing, startPos,
                   canvasSnapshot, pastingImage, history, historyStep, loads, pushCount>>

\* -------------------------------------------------------------- pointer up
\* the three setters at the end of stopDrawing.  closePath leaves a path
\* that nothing reads again: the next gesture begins with beginPath.
EndGesture ==
    /\ isDrawing' = FALSE
    /\ startPos' = None
    /\ canvasSnapshot' = None
    /\ path' = EmptyPath

\* the selection rectangle of handleMoveSelection
SelectionRect(s, endPos) ==
    [x |-> Min(s[1], endPos[1]), y |-> Min(s[2], endPos[2]),
     width |-> Abs(s[1] - endPos[1]), height |-> Abs(s[2] - endPos[2])]

\* handleMoveSelection: nothing for a degenerate rectangle, otherwise the
\* selected pixels are read from the canvas as it is and an Image is
\* created whose onload holds this render's canvasSnapshot and
\* backgroundColor
handleMoveSelection(endPos) ==
    LET rect == SelectionRect(startPos[1], endPos)
    IN IF rect.width < 1 \/ rect.height < 1 THEN loads
       ELSE loads \cup {[kind |-> "move", snap |-> canvasSnapshot, rect |-> rect,
                         bg |-> backgroundColor,
                         image |-> Region(canvas, rect.x * dpr, rect.y * dpr,
                                          rect.width * dpr, rect.height * dpr)]}

\* stopDrawing for onMouseUp and onMouseLeave (name says which)
stopDrawing(name, endPos) ==
    /\ CanPush
    /\ IF ~isDrawing
       THEN /\ ev' = Quiet
            /\ UNCHANGED <<canvas, path, isDrawing, startPos, canvasSnapshot,
                           history, historyStep, loads, pushCount>>
       ELSE IF tool \in ShapeTools
       THEN IF canvasSnapshot = None
            THEN \* putImageData(null, 0, 0) throws
                 /\ ev' = Event(name, 0, TRUE, None, NoFill)
                 /\ UNCHANGED <<canvas, path, isDrawing, startPos, canvasSnapshot,
                                history, historyStep, loads, pushCount>>
            ELSE /\ Commit(draw(canvasSnapshot[1], endPos).canvas)
                 /\ EndGesture
                 /\ ev' = Event(name, 1, FALSE, None, NoFill)
       ELSE IF tool \in StrokeTools
       THEN /\ Commit(canvas)
            /\ EndGesture
            /\ ev' = Event(name, 1, FALSE, None, NoFill)
       ELSE IF tool = "move"
       THEN /\ loads' = handleMoveSelection(endPos)
            /\ loads' # loads => CanLoad
            /\ EndGesture
            /\ ev' = Event(name, 0, FALSE, None, NoFill)
            /\ UNCHANGED <<canvas, history, historyStep, pushCount>>
       ELSE /\ EndGesture
            /\ ev' = Event(name, 0, FALSE, None, NoFill)
            /\ UNCHANGED <<canvas, history, historyStep, loads, pushCount>>
    /\ UNCHANGED <<gco, tool, color, backgroundColor, pastingImage>>

mouseUp(pos) == stopDrawing("mouseup", pos)

mouseLeave(pos) == stopDrawing("mouseleave", pos)

\* stopDrawing for onTouchEnd: the event's touches list is empty, so
\* getCoords destructures undefined and throws before anything is set
touchEnd ==
    /\ CanPush
    /\ ev' = IF isDrawing THEN Event("touchend", 0, TRUE, None, NoFill) ELSE Quiet
    /\ UNCHANGED <<canvas, gco, path, tool, color, backgroundColor, isDrawing,
                   startPos, canvasSnapshot, pastingImage, history, historyStep,
                   loads, pushCount>>

\* ------------------------------------------------------------ image onload
\* img.onload of the redraw effect
restoreLoaded(l) ==
    /\ l \in loads
    /\ l.kind = "restore"
    /\ canvas' = DrawImage(Cleared, l.src, gco)
    /\ loads' = loads \ {l}
    /\ ev' = Quiet
    /\ UNCHANGED <<gco, path, tool, color, backgroundColor, isDrawing, startPos,
                   canvasSnapshot, pastingImage, history, historyStep, pushCount>>

\* pixels of fillRect(rect.x, rect.y, rect.width, rect.height)
BoxPixels(rect) ==
    {p \in Pixels : /\ rect.x <= p[1] /\ p[1] < rect.x + rect.width
                    /\ rect.y <= p[2] /\ p[2] < rect.y + rect.height}

\* image.onload of handleMoveSelection
moveLoaded(l) ==
    /\ l \in loads
    /\ l.kind = "move"
    /\ loads' = loads \ {l}
    /\ IF l.snap = None
       THEN \* putImageData(null, 0, 0) throws
            /\ ev' = Event("moveLoaded", 0, TRUE, None, NoFill)
            /\ UNCHANGED <<canvas, canvasSnapshot, pastingImage>>
       ELSE /\ canvas' = Paint(l.snap[1], BoxPixels(l.rect), l.bg, gco)
            /\ canvasSnapshot' = Some(canvas')
            /\ pastingImage' = Some([image |-> l.image, width |-> l.rect.width,
                                     height |-> l.rect.height])
            /\ ev' = Quiet
    /\ UNCHANGED <<gco, path, tool, color, backgroundColor, isDrawing, startPos,
                   history, historyStep, pushCount>>

\* ---------------------------------------------------------- specification
Next ==
    \/ \E t \in Tools : SetTool(t)
    \/ Undo
    \/ clearCanvas
    \/ \E pos \in Points : pasteImage(pos)
    \/ \E pos \in Points : handleFill(pos)
    \/ \E pos \in Points : startDrawing(pos)
    \/ \E pos \in Points : floatingPreview(pos)
    \/ \E pos \in Points : handleMouseMove(pos)
    \/ \E pos \in Points : mouseUp(pos)
    \/ \E pos \in Points : mouseLeave(pos)
    \/ touchEnd
    \/ \E l \in loads : restoreLoaded(l)
    \/ \E l \in loads : moveLoaded(l)

Spec == Init /\ [][Next]_vars

\* a session on a touch screen: touchstart, touchmove and touchend on the
\* canvas, the toolbar between the gestures, and the image loads
NextTouch ==
    \/ \E t \in Tools : SetTool(t)
    \/ \E t \in Tools : SetToolAfterTouch(t)
    \/ \E pos \in Points : handleFill(pos)
    \/ \E pos \in Points : startDrawing(pos)
    \/ \E pos \in Points : handleMouseMove(pos)
    \/ touchEnd
    \/ \E l \in loads : restoreLoaded(l)

SpecTouch == Init /\ [][NextTouch]_vars

\* ------------------------------------------------------- mount and window
\* the values the background colour input is set to
BackgroundChoices == {"#FFFFFF", "#000000"}

\* after the first render, before its effects have run
InitMount ==
    /\ backgroundColor = "#FFFFFF"
    /\ color = "#000000"
    /\ tool = "pencil"
    /\ gco = "source-over"
    /\ canvas = Cleared
    /\ path = EmptyPath
    /\ isDrawing = FALSE
    /\ startPos = None
    /\ canvasSnapshot = None
    /\ pastingImage = None
    /\ history = <<>>
    /\ historyStep = -1
    /\ loads = {}
    /\ pushCount = 0
    /\ ev = Quiet

Mounted == historyStep >= 0

\* the effects of the first render, in their order: the mount effect sets up
\* the context and calls clearCanvas; the effect on backgroundColor finds the
\* context set and historyStep = -1 and calls clearCanvas again.  Both calls
\* belong to the first render, so both slice its empty history and the
\* second setHistory replaces the first.  The next render's redraw effect
\* then creates the Image of entry 0.
mount ==
    /\ ~Mounted
    /\ LET cv == Paint(Cleared, Pixels, backgroundColor, gco)
           r == saveToHistory(history, historyStep, Entry(cv, 0))
       IN /\ canvas' = cv
          /\ history' = r.history
          /\ historyStep' = r.historyStep
          /\ loads' = RedrawEffect(r.history, r.historyStep, "push")
    /\ ev' = [name |-> "mount", wasDrawing |-> FALSE, pushed |-> 1,
              threw |-> FALSE, pos |-> None, fill |-> NoFill]
    /\ UNCHANGED <<gco, path, tool, color, backgroundColor, isDrawing, startPos,
                   canvasSnapshot, pastingImage, pushCount>>

\* the background colour input: setBackgroundColor(b), then the effect on
\* [backgroundColor] of the new render
setBackgroundColor(b) ==
    /\ b # backgroundColor
    /\ backgroundColor' = b
    /\ IF historyStep < 0
       THEN /\ Commit(Paint(Cleared, Pixels, b, gco))
            /\ ev' = Event("clear", 1, FALSE, None, NoFill)
       ELSE /\ ev' = Event("background", 0, FALSE, None, NoFill)
            /\ UNCHANGED <<canvas, history, historyStep, loads, pushCount>>
    /\ UNCHANGED <<gco, path, tool, color, isDrawing, startPos, canvasSnapshot,
                   pastingImage>>

\* resizes whose Image has not loaded are explored up to MaxLoads at once
CanResize == Cardinality({l \in loads : l.kind = "resize"}) < MaxLoads

\* the window's resize event: handleResize.  Assigning canvas.width clears
\* the canvas and resets the context (globalCompositeOperation is
\* source-over again, the path is empty); the picture taken before is drawn
\* back when its Image has loaded.  The canvas keeps its size here.
handleResize ==
    /\ CanResize
    /\ loads' = loads \cup {[kind |-> "resize", src |-> toDataURL(canvas)]}
    /\ canvas' = Cleared
    /\ gco' = "source-over"
    /\ path' = EmptyPath
    /\ ev' = Quiet
    /\ UNCHANGED <<tool, color, backgroundColor, isDrawing, startPos,
                   canvasSnapshot, pastingImage, history, historyStep, pushCount>>

\* img.onload of handleResize
resizeLoaded(l) ==
    /\ l \in loads
    /\ l.kind = "resize"
    /\ canvas' = DrawImage(canvas, l.src, gco)
    /\ loads' = loads \ {l}
    /\ ev' = Quiet
    /\ UNCHANGED <<gco, path, tool, color, backgroundColor, isDrawing, startPos,
                   canvasSnapshot, pastingImage, history, historyStep, pushCount>>

\* the component from its first render on: the mount, the background
\* colour input, window resizes, Clear and Undo
NextWindow ==
    \/ mount
    \/ \E b \in BackgroundChoices : Mounted /\ setBackgroundColor(b)
    \/ Mounted /\ handleResize
    \/ Mounted /\ clearCanvas
    \/ Mounted /\ Undo
    \/ \E l \in loads : restoreLoaded(l)
    \/ \E l \in loads : resizeLoaded(l)

SpecWindow == InitMount /\ [][NextWindow]_vars

\* the fill tool alone, on every buffer over three pixel values and with
\* every origin
FillPalette == {Opaque("#FFFFFF"), Opaque("#000000"), Transparent}

InitFill ==
    /\ backgroundColor \in Backgrounds
    /\ color \in Colors
    /\ tool = "fill"
    /\ gco = "source-over"
    /\ canvas \in [Pixels -> FillPalette]
    /\ path = EmptyPath
    /\ isDrawing = FALSE
    /\ startPos = None
    /\ canvasSnapshot = None
    /\ pastingImage = None
    /\ history = <<Entry(canvas, 0)>>
    /\ historyStep = 0
    /\ loads = {}
    /\ pushCount = 0
    /\ ev = Quiet

NextFill ==
    \/ \E pos \in Pixels : handleFill(pos)
    \/ \E l \in loads : restoreLoaded(l)

SpecFill == InitFill /\ [][NextFill]_vars

\* ------------------------------------------------------------------ claims
\* the picture a history entry decodes to
Decoded(url) == [p \in Pixels |-> ImagePixel(url, p)]

\* the entry at the cursor
Current == history[historyStep + 1]

\* C1: a push keeps the entries up to the cursor, drops every entry after
\* it, appends the snapshot of the canvas and leaves the cursor on it (new
\* length = cursor + 2, new cursor = cursor + 1); entries are numbered in
\* the order they were pushed, so an entry dropped by a push is never in
\* the history, and so never current, again.
HistoryPushLaw ==
    /\ [][pushCount' # pushCount =>
            /\ Len(history') = historyStep + 2
            /\ historyStep' = historyStep + 1
            /\ SubSeq(history', 1, historyStep + 1) = SubSeq(history, 1, historyStep + 1)
            /\ history'[historyStep' + 1] = Entry(canvas', pushCount')
            /\ \A i \in (historyStep + 2)..Len(history) :
                 \A j \in DOMAIN history' : history'[j].n # history[i].n]_vars
    /\ [][pushCount' = pushCount => history' = history]_vars
    /\ [](\A i \in DOMAIN history :
            /\ history[i].n <= pushCount
            /\ i > 1 => history[i - 1].n < history[i].n)

\* push(b); undo(); push(c) has happened: b (entry 1) is gone
PushAfterUndoReached ==
    /\ pushCount = 2
    /\ Len(history) = 2
    /\ historyStep = 1
    /\ history[2].n = 2

\* C2: Undo with cursor > 0 moves the cursor back by exactly one, to the
\* entry pushed immediately before the current one, and with cursor = 0 it
\* changes neither cursor nor history; only a push ever increases the cursor.
UndoLaw ==
    [][/\ Undo =>
            /\ history' = history
            /\ IF historyStep > 0
               THEN /\ historyStep' = historyStep - 1
                    /\ history'[historyStep' + 1] = history[historyStep]
               ELSE historyStep' = historyStep
       /\ historyStep' > historyStep => pushCount' = pushCount + 1]_vars

\* an undo moved the cursor off the last entry
UndoReached == ev.name = "undo" /\ historyStep + 1 < Len(history)

\* C3: whenever the history holds an entry, the cursor is a valid index.
CursorValid ==
    Len(history) >= 1 => 0 <= historyStep /\ historyStep < Len(history)

\* two pushes and two undos: the cursor is back on the first of three entries
CursorBackAtStart == pushCount = 2 /\ Len(history) = 3 /\ historyStep = 0

\* C4: the restore that an undo started leaves the canvas pixel-identical
\* to the entry it decoded, whichever tool is selected when it runs.
UndoRestoresEntry ==
    [][\A l \in loads :
         (restoreLoaded(l) /\ l.cause = "undo") => canvas' = Decoded(l.src)]_vars

\* C5: every pixel an eraser stroke has touched holds the background colour
\* at full opacity.
EraserPaintsBackground ==
    [][\A pos \in Points :
         (handleMouseMove(pos) /\ isDrawing /\ tool = "eraser") =>
            \A p \in path'.pix : canvas'[p] = Opaque(backgroundColor)]_vars

\* the 4-connected component of o among the pixels that hold o's colour
RECURSIVE Grow(_, _)
Grow(cv, S) ==
    LET T == S \cup {q \in Pixels :
                       \E p \in S : /\ Abs(p[1] - q[1]) + Abs(p[2] - q[2]) = 1
                                    /\ cv[q] = cv[p]}
    IN IF T = S THEN S ELSE Grow(cv, T)

Component(cv, o) == Grow(cv, {o})

\* C6: a fill at an in-bounds origin whose colour differs from the
\* replacement colour recolours exactly the 4-connected component of the
\* origin among the pixels of the origin's colour and leaves every other
\* pixel as it was.
FillRecoloursComponent ==
    [][\A pos \in Pixels :
         (handleFill(pos) /\ canvas[pos] # Opaque(color)) =>
            canvas' = [p \in Pixels |->
                         IF p \in Component(canvas, pos) THEN Opaque(color)
                         ELSE canvas[p]]]_vars

\* a fill recoloured more than its origin and less than the whole canvas
PartialFillReached ==
    /\ ev.name = "fill"
    /\ ev.fill.filled > 1
    /\ \E p \in Pixels : canvas[p] # Opaque(color)

\* C7: a fill at an origin that already holds the fill colour at alpha 255
\* changes no pixel and dequeues and enqueues nothing.
FillNoopLaw ==
    [][\A pos \in Pixels :
         (handleFill(pos) /\ canvas[pos] = Opaque(color)) =>
            /\ canvas' = canvas
            /\ ev'.fill.deq = 0
            /\ ev'.fill.enq = 0]_vars

\* a fill returned before its loop on a canvas that is not uniform
NoopFillReached ==
    /\ ev.name = "fill"
    /\ ~ev.fill.done
    /\ canvas[ev.pos[1]] = Opaque(color)
    /\ \E p \in Pixels : canvas[p] # Opaque(color)

\* C8 as stated: every fill click pushes exactly one history entry.
FillAlwaysCommits ==
    [][\A pos \in Points : handleFill(pos) => pushCount' = pushCount + 1]_vars

\* C8 amended: a fill click at an origin that differs from the fill colour
\* pushes exactly one entry, the snapshot of the filled canvas; a fill click
\* at an origin that already holds the fill colour pushes nothing.
FillCommitsUnlessNoop ==
    [][\A pos \in Points :
         handleFill(pos) =>
            IF canvas[pos] = Opaque(color)
            THEN /\ pushCount' = pushCount
                 /\ history' = history
                 /\ historyStep' = historyStep
            ELSE /\ pushCount' = pushCount + 1
                 /\ Len(history') = historyStep + 2
                 /\ historyStep' = historyStep + 1
                 /\ history'[historyStep' + 1].url = toDataURL(canvas')]_vars

\* a fill click that pushed nothing, after an earlier push
NoopFillAfterPush == ev.name = "fill" /\ ev.pushed = 0 /\ pushCount >= 1

\* C9: a gesture-end handler that ran while a gesture of a stroke or shape
\* tool was active pushed exactly one entry.
GestureCommitsOnce ==
    (ev.name \in EndEvents /\ ev.wasDrawing /\ tool \in StrokeTools \cup ShapeTools)
        => ev.pushed = 1

\* C10: right after clearCanvas every pixel holds the background colour at
\* full opacity and one entry holding that canvas has been pushed.
ClearPaintsBackground ==
    ev.name = "clear" =>
        /\ \A p \in Pixels : canvas[p] = Opaque(backgroundColor)
        /\ ev.pushed = 1
        /\ Current.url = toDataURL(canvas)

\* C20: with the fill tool selected and no region floating, a pointer-down
\* does not take the engine from Idle to Active, and pointer-move,
\* pointer-up and pointer-leave change neither the canvas nor the history
\* nor the cursor.
FillToolFrame ==
    [][(tool = "fill" /\ pastingImage = None) =>
         /\ (\E pos \in Points : handleFill(pos)) => (~isDrawing => ~isDrawing')
         /\ (\E pos \in Points :
                handleMouseMove(pos) \/ mouseUp(pos) \/ mouseLeave(pos)) =>
               UNCHANGED <<canvas, history, historyStep>>]_vars

\* C11: the mount leaves a history of exactly one entry, the cleared canvas,
\* with the cursor on it; and a change of the background colour while the
\* cursor is on that first entry clears the canvas to the new colour and
\* pushes an entry of the cleared canvas.
BackgroundChangeClears ==
    /\ [][mount =>
            /\ Len(history') = 1
            /\ historyStep' = 0
            /\ history'[1].url = toDataURL([p \in Pixels |-> Opaque(backgroundColor)])]_vars
    /\ [][\A b \in BackgroundChoices :
            (setBackgroundColor(b) /\ historyStep = 0) =>
               /\ canvas' = [p \in Pixels |-> Opaque(b)]
               /\ pushCount' = pushCount + 1
               /\ history'[historyStep' + 1].url = toDataURL(canvas')]_vars

\* C17: the picture a resize took is not drawn over content that reached
\* the canvas after the resize cleared it (a restore, or a later resize's
\* picture): when its Image loads on a canvas that is no longer blank, the
\* canvas stays as it is.
StaleResizeFrameDiscarded ==
    [][\A l \in loads :
         (resizeLoaded(l) /\ canvas # Cleared) => canvas' = canvas]_vars

\* C18: a fill whose colour differs from the origin's colour runs its loop
\* to the end: every pixel is rewritten at most once (the number of writes
\* is the number of pixels that changed, and only pixels of the origin's
\* colour changed), at most 1 + 4 * (pixels rewritten) coordinates are ever
\* enqueued, and every enqueued coordinate has been dequeued, so the queue
\* is empty.
FillTerminates ==
    [][\A pos \in Pixels :
         (handleFill(pos) /\ canvas[pos] # Opaque(color)) =>
            /\ ev'.fill.done
            /\ ev'.fill.filled = Cardinality({p \in Pixels : canvas'[p] # canvas[p]})
            /\ \A p \in Pixels :
                 canvas'[p] # canvas[p] =>
                    canvas[p] = canvas[pos] /\ canvas'[p] = Opaque(color)
            /\ ev'.fill.enq <= 1 + 4 * ev'.fill.filled
            /\ ev'.fill.deq = ev'.fill.enq]_vars

\* a fill rewrote every pixel of the canvas: each was enqueued again by its
\* neighbours and skipped
WholeCanvasFilled ==
    /\ ev.name = "fill"
    /\ ev.fill.filled = W * H
    /\ ev.fill.deq = 1 + 4 * W * H

\* C16: a gesture-end handler that ran while a gesture was active did not
\* throw and left the engine idle: isDrawing is false and the start point
\* and the gesture snapshot are gone.
GestureEndReturnsToIdle ==
    (ev.name \in EndEvents /\ ev.wasDrawing) =>
        /\ ~ev.threw
        /\ ~isDrawing
        /\ startPos = None
        /\ canvasSnapshot = None

\* C13: a move gesture that ends on a rectangle less than one pixel wide or
\* high leaves the canvas as it was when the gesture started (the snapshot
\* taken then), creates no floating region, starts no image load and pushes
\* no entry.
DegenerateMoveIsNoop ==
    [][\A pos \in Points :
         ( /\ isDrawing /\ tool = "move" /\ canvasSnapshot # None
           /\ mouseUp(pos) \/ mouseLeave(pos)
           /\ LET rect == SelectionRect(startPos[1], pos)
              IN rect.width < 1 \/ rect.height < 1 ) =>
            /\ canvas' = canvasSnapshot[1]
            /\ pastingImage' = None
            /\ loads' = loads
            /\ UNCHANGED <<history, historyStep, pushCount>>]_vars

\* C15: when a region has been detached (captured, the hole filled with the
\* background colour), drawing it back at the offset it was cut from gives
\* the canvas of the moment the move gesture started.
MoveRoundTrip ==
    [][\A l \in loads :
         (moveLoaded(l) /\ l.snap # None) =>
            DrawRegion(canvas', l.image, l.rect.x, l.rect.y, gco) = l.snap[1]]_vars

\* C19: the pointer-down that ends the floating state leaves, on the canvas
\* and in the entry it pushes, the hole-filled snapshot with the region
\* drawn once, at the position of the pointer-down, whatever previews were
\* drawn before.
PasteDrawsRegionOnce ==
    [][\A pos \in Points :
         (pasteImage(pos) /\ canvasSnapshot # None) =>
            LET pi == pastingImage[1]
                once == DrawRegion(canvasSnapshot[1], pi.image,
                                   pos[1] - (pi.width \div 2),
                                   pos[2] - (pi.height \div 2), "source-over")
            IN /\ canvas' = once
               /\ history'[historyStep' + 1].url = toDataURL(once)]_vars

\* the pixels of the shape that tool t draws from s to q
ShapePixels(t, s, q) ==
    CASE t = "line" -> LinePixels(s, q)
      [] t = "rectangle" -> RectPixels(s, q)
      [] t = "circle" -> CirclePixels(s, q)

\* snap with one shape of tool t from s to q drawn on it in the colour c
WithShape(snap, t, s, q, c) ==
    [p \in Pixels |-> IF p \in ShapePixels(t, s, q) THEN Opaque(c) ELSE snap[p]]

\* C12: while a line, rectangle or circle gesture is active the snapshot
\* taken at its start is kept; after every pointer-move the canvas is that
\* snapshot with one shape from the start point to the pointer; and the
\* gesture end leaves, on the canvas and in the pushed entry, that snapshot
\* with one shape from the start point to the end point.
ShapePreviewLaw ==
    [][(isDrawing /\ tool \in ShapeTools /\ canvasSnapshot # None) =>
         /\ (isDrawing' /\ ~\E pos \in Points : startDrawing(pos)) =>
               canvasSnapshot' = canvasSnapshot
         /\ \A pos \in Points :
              (handleMouseMove(pos) \/ floatingPreview(pos)) =>
                 canvas' = WithShape(canvasSnapshot[1], tool, startPos[1], pos, color)
         /\ \A pos \in Points :
              (mouseUp(pos) \/ mouseLeave(pos)) =>
                 /\ canvas' = WithShape(canvasSnapshot[1], tool, startPos[1], pos, color)
                 /\ pushCount' = pushCount + 1
                 /\ history'[historyStep' + 1].url = toDataURL(canvas')]_vars

\* C14: the end of a move drag and the onload that detaches the region push
\* nothing; a pointer-down while a region floats starts neither a gesture
\* nor a fill: it pastes, ends the floating state, selects the pencil and
\* pushes exactly one entry, the canvas with the region on it.
MoveCommitProtocol ==
    /\ [][\A pos \in Points :
            (isDrawing /\ tool = "move" /\ (mouseUp(pos) \/ mouseLeave(pos))) =>
               UNCHANGED <<history, historyStep, pushCount>>]_vars
    /\ [][\A l \in loads :
            moveLoaded(l) => UNCHANGED <<history, historyStep, pushCount>>]_vars
    /\ [][(/\ pastingImage # None
           /\ \E pos \in Points :
                pasteImage(pos) \/ handleFill(pos) \/ startDrawing(pos)) =>
            /\ ev'.name = "paste"
            /\ pastingImage' = None
            /\ tool' = "pencil"
            /\ UNCHANGED <<isDrawing, startPos, canvasSnapshot>>
            /\ pushCount' = pushCount + 1
            /\ Len(history') = historyStep + 2
            /\ historyStep' = historyStep + 1
            /\ history'[historyStep' + 1].url = toDataURL(canvas')]_vars

\* a region was detached and pasted, and the paste made the only push
PastedAfterDetach ==
    /\ ev.name = "paste"
    /\ pushCount = 1
    /\ Len(history) = 2
    /\ tool = "pencil"
    /\ pastingImage = None

\* C21: the onload that detaches a region overwrites nothing that was done
\* after the move drag ended: the pixels of a stroke begun since then keep
\* their values, a canvas that Clear has just painted stays as it is, and
\* the history and the cursor are untouched.
MoveCallbackKeepsLaterWork ==
    [][\A l \in loads :
         (l.kind = "move" /\ moveLoaded(l)) =>
            /\ (isDrawing /\ tool \in StrokeTools) =>
                  \A p \in path.pix : canvas'[p] = canvas[p]
            /\ ev.name = "clear" => canvas' = canvas
            /\ UNCHANGED <<history, historyStep>>]_vars

\* C22: when no gesture is active, no region floats and no image is
\* loading, the canvas is the picture of the history entry at the cursor.
QuiescentConsistency ==
    (~isDrawing /\ pastingImage = None /\ loads = {}) =>
        canvas = Decoded(Current.url)

====
